---- MODULE Spec2Model ----
(***************************************************************************)
(* Model of the message synchronisation logic of ChatPage.jsx: the         *)
(* WebSocket connection manager (connectWebSocket and its onopen, onerror  *)
(* and onclose handlers, the reconnect timer, the connect effect) and the  *)
(* message store (local sends, inbound frames, conversation fetches).      *)
(*                                                                         *)
(* WebSocket objects and timeouts have no identity the program reads, so   *)
(* the sockets other than ws.current and the pending timeouts are bags.    *)
(* The model follows one ChatPage instance, from its first render to the   *)
(* callbacks it leaves behind when it is unmounted, and the token in       *)
(* localStorage, which the login page (AuthPage) sets again.               *)
(*                                                                         *)
(* navigate("/") only asks for the route change: React unmounts the        *)
(* component and runs the cleanup of the connect effect later (Unmount),   *)
(* and other callbacks can run before it.                                  *)
(***************************************************************************)
EXTENDS Integers, Sequences, FiniteSets, Bags, TLC

\* ------------------------------------------------------------------------
\* Bounds of the model
\* ------------------------------------------------------------------------
MaxSockets == 2
MaxTimers == 2
MaxMsgs == 2
MaxSrv == 2
MaxClock == 2
MaxRest == 1
MaxFetch == 3
MaxGets == 2

\* ------------------------------------------------------------------------
\* Program constants
\* ------------------------------------------------------------------------
MaxAttempts == 5
BaseDelay == 1000
CapDelay == 10000

Null == "null"
Me == "u0"
Peers == {"u1", "u2"}

VARIABLES
    wsBlocked,          \* new WebSocket(WS_URL) throws on this page
    userRequest,        \* the GET /users/me of the mount effect
    mounted,            \* the ChatPage component is mounted
    currentUser,        \* useState currentUser (id or Null)
    selectedUser,       \* useState selectedUser (id or Null)
    token,              \* localStorage holds a token
    ws,                 \* ws.current: the socket the component holds
    orphans,            \* sockets ws.current no longer names, still alive
    reconnectAttempts,  \* reconnectAttempts.current
    timers,             \* pending reconnect timeouts
    connectionStatus,   \* useState connectionStatus
    messages,           \* useState messages: the message store
    users,              \* useState users: the presence table
    usersAsked,         \* fetchUsers has sent a GET /users
    now,                \* the clock Date.now() reads
    srv,                \* the messages the server has stored, in id order
    upload,             \* the POST /upload in flight, or NoUpload
    rest,               \* PUT/DELETE /messages/:id calls in flight
    fetchTimers,        \* pending debounce timeouts of fetchMessages instances
    inflight,           \* the GET /messages requests in flight
    op,                 \* the handler that ran last and what it did
    delayLog            \* delays passed to setTimeout since the counter was 0

connVars == <<ws, orphans, reconnectAttempts, timers, connectionStatus, delayLog>>

storeVars == <<messages, now, srv, upload, rest, fetchTimers, inflight>>

vars == <<wsBlocked, userRequest, mounted, currentUser, selectedUser, token, connVars,
          storeVars, users, usersAsked, op>>

\* ------------------------------------------------------------------------
\* Sockets and timers
\* ------------------------------------------------------------------------
Min(a, b) == IF a < b THEN a ELSE b

Pow2(n) == 2 ^ n

RemoveAt(seq, i) == SubSeq(seq, 1, i - 1) \o SubSeq(seq, i + 1, Len(seq))

BagAdd(b, e) == b (+) SetToBag({e})

BagRemove(b, e) == b (-) SetToBag({e})

\* A WebSocket object: its readyState, the selectedUser its handlers closed
\* over, whether it opened while no token was stored, whether the server's
\* "connection" frame has arrived on it, the first frame the client sent on
\* it ("none", "auth" or "other"), and whether close() was called on it
\* before the connection was established, which fails the connection.
NoSocket == [st |-> "NONE", sel |-> Null, noauth |-> FALSE, acked |-> FALSE,
             first |-> "none", failed |-> FALSE]

ClosedSocket == [st |-> "CLOSED", sel |-> Null, noauth |-> FALSE, acked |-> FALSE,
                 first |-> "none", failed |-> FALSE]

NewSocket(sel) == [st |-> "CONNECTING", sel |-> sel, noauth |-> FALSE,
                   acked |-> FALSE, first |-> "none", failed |-> FALSE]

\* The socket can still fire events.
Live(r) == r.st \in {"CONNECTING", "OPEN", "CLOSING"}

\* The connection manager's state, read off the socket it holds, the pending
\* reconnect timers and the attempt counter.
ConnState(w, tm, att) ==
    IF w.st = "OPEN" THEN (IF w.acked THEN "Connected" ELSE "Authenticating")
    ELSE IF w.st = "CONNECTING" THEN "Connecting"
    ELSE IF tm # EmptyBag THEN "Reconnecting"
    ELSE IF att >= MaxAttempts THEN "Degraded"
    ELSE "Disconnected"

\* Math.min(1000 * Math.pow(2, n), 10000)
DelayNoCap(n) == BaseDelay * Pow2(n)

Delay(n) == Min(BaseDelay * Pow2(n), CapDelay)

\* connectWebSocket's guard: nothing happens without a current user or when
\* ws.current is OPEN.
ConnectSkips(cu, w) == cu = Null \/ w.st = "OPEN"

\* The model can follow this call: it skips, the constructor throws, or one
\* more socket fits.
CanConnect(cu, w, orph) ==
    \/ ConnectSkips(cu, w)
    \/ wsBlocked
    \/ BagCardinality(orph) + (IF Live(w) THEN 1 ELSE 0) < MaxSockets

\* connectWebSocket() called from a closure whose selectedUser is sel: the
\* socket held afterwards, the other sockets, whether one was created, and
\* whether the constructor threw (WS_URL is a ws:// address, which a page
\* loaded over https may not open): then ws.current keeps its value and the
\* catch runs.
ConnectWebSocket(cu, w, orph, sel) ==
    IF ConnectSkips(cu, w)
    THEN [ws |-> w, orphans |-> orph, created |-> FALSE, threw |-> FALSE]
    ELSE IF wsBlocked
    THEN [ws |-> w, orphans |-> orph, created |-> FALSE, threw |-> TRUE]
    ELSE [ws |-> NewSocket(sel),
          orphans |-> IF Live(w) THEN BagAdd(orph, w) ELSE orph,
          created |-> TRUE, threw |-> FALSE]

\* setConnectionStatus("error") of connectWebSocket's catch, after call c.
StatusAfter(c) == IF c.threw /\ mounted THEN "error" ELSE connectionStatus

\* The error on screen after call c, made by a handler that had shown err:
\* the setError of the catch comes last.
ErrorAfter(c, err) ==
    IF c.threw THEN "Failed to establish WebSocket connection." ELSE err

\* WebSocket.close(): an OPEN socket starts the closing handshake, and the
\* connection of a CONNECTING socket is failed.
CloseSocket(w) ==
    IF w.st = "OPEN" THEN [w EXCEPT !.st = "CLOSING"]
    ELSE IF w.st = "CONNECTING" THEN [w EXCEPT !.st = "CLOSING", !.failed = TRUE]
    ELSE w

\* The test of the send, edit and delete handlers before ws.current.send.
IsOpenOrConnecting(w) == w.st \in {"OPEN", "CONNECTING"}

IsOpen(w) == w.st = "OPEN"

\* ws.current.send(frame) on socket w: the socket afterwards.
Transmit(w, frame) ==
    IF w.first = "none"
    THEN [w EXCEPT !.first = IF frame = "auth" THEN "auth" ELSE "other"]
    ELSE w

\* The sockets whose handlers can run: ws.current and the orphans.
Handles ==
    {[cur |-> TRUE, sock |-> ws]} \cup
    {[cur |-> FALSE, sock |-> o] : o \in BagToSet(orphans)}

\* Socket h.sock becomes r.
WsAfter(h, r) == IF h.cur THEN r ELSE ws

OrphansAfter(h, r) ==
    IF h.cur THEN orphans
    ELSE IF Live(r) THEN BagAdd(BagRemove(orphans, h.sock), r)
    ELSE BagRemove(orphans, h.sock)

\* A pending timeout: the selectedUser of the closure it will call, and
\* whether reconnectTimeoutRef.current names it.
Unref(tm) ==
    IF \E t \in BagToSet(tm) : t.ref
    THEN LET t == CHOOSE t \in BagToSet(tm) : t.ref
         IN BagAdd(BagRemove(tm, t), [t EXCEPT !.ref = FALSE])
    ELSE tm

\* reconnectTimeoutRef.current = setTimeout(...)
Schedule(tm, sel) == BagAdd(Unref(tm), [sel |-> sel, ref |-> TRUE])

\* clearTimeout(reconnectTimeoutRef.current)
ClearTimeout(tm) ==
    IF \E t \in BagToSet(tm) : t.ref
    THEN BagRemove(tm, CHOOSE t \in BagToSet(tm) : t.ref)
    ELSE tm

\* ------------------------------------------------------------------------
\* fetchMessages instances
\* ------------------------------------------------------------------------

\* fetchMessages is useCallback(debounce(...)): every render with a new
\* currentUser or selectedUser object gives a new debounce instance with a
\* timeout of its own, which nothing cancels. Instance 0 is the one of the
\* closure in force; an instance that a re-render replaced is named by a
\* positive number for as long as a timeout of it is pending or a REST call
\* made from its closure is awaited.
Current == 0

\* The instances the pending timeouts ft and the REST calls rs name.
Instances(ft, rs) == {t.inst : t \in ft} \cup {rs[i].inst : i \in 1..Len(rs)}

\* The name the current instance takes when a re-render replaces it.
Retired(ft, rs) ==
    LET used == Instances(ft, rs) \ {Current}
    IN CHOOSE n \in 1..(Cardinality(used) + 1) :
          n \notin used /\ \A m \in 1..(n - 1) : m \in used

\* The pending timeouts and the REST calls after such a re-render.
RetireTimers(ft, n) ==
    {IF t.inst = Current THEN [t EXCEPT !.inst = n] ELSE t : t \in ft}

RetireCalls(rs, n) ==
    [i \in 1..Len(rs) |->
        IF rs[i].inst = Current THEN [rs[i] EXCEPT !.inst = n] ELSE rs[i]]

\* debounce: a call of instance i, whose closure has selectedUser sel,
\* clears the timeout of that instance and sets it again.
Debounce(ft, i, sel) ==
    {t \in ft : t.inst # i} \cup {[inst |-> i, sel |-> sel]}

\* ------------------------------------------------------------------------
\* Message store
\* ------------------------------------------------------------------------

\* JavaScript truthiness of a string or null, and of a timestamp (0: none).
Truthy(x) == x # Null /\ x # ""

OrStr(a, b) == IF Truthy(a) THEN a ELSE b

OrInt(a, b) == IF a # 0 THEN a ELSE b

\* isValidUUID: the ids of this model that match the pattern.
ValidUUIDs == {Me} \cup Peers

\* A test that accepts every string.
IsString(id) == id # Null

IsValidUUID(id) == id \in ValidUUIDs

\* Date.now().toString()
TempId(t) == ToString(t)

\* The id the server gives the k-th message it stores.
CanonId(k) == "m" \o ToString(k)

NoData == [message_id |-> Null, temp_id |-> Null, text |-> Null,
           media_url |-> Null, sender_id |-> Null, receiver_id |-> Null,
           created_at |-> 0, edited |-> FALSE]

\* The entry a local send adds (handleSendMessage, handleFileUpload).
PendingEntry(t, cu, sel, text, media) ==
    [message_id |-> TempId(t), temp_id |-> TempId(t), text |-> text,
     media_url |-> media, sender_id |-> cu, receiver_id |-> sel,
     created_at |-> t, edited |-> FALSE]

\* The duplicate test of the "message" case.
Matches(m, data) ==
    \/ Truthy(m.message_id) /\ m.message_id = data.message_id
    \/ Truthy(m.temp_id) /\ m.temp_id = data.temp_id

\* The update of an entry the "message" case finds already there.
MergeEntry(m, data) ==
    [message_id |-> OrStr(data.message_id, m.message_id),
     temp_id |-> IF Truthy(data.temp_id) THEN Null ELSE m.temp_id,
     text |-> OrStr(data.text, m.text),
     media_url |-> OrStr(data.media_url, m.media_url),
     sender_id |-> data.sender_id,
     receiver_id |-> data.receiver_id,
     created_at |-> OrInt(data.created_at, m.created_at),
     edited |-> data.edited \/ m.edited]

\* The entry the "message" case appends for a message it does not know.
NewEntry(data) ==
    [message_id |-> OrStr(data.message_id, data.temp_id),
     temp_id |-> IF Truthy(data.temp_id) THEN Null ELSE data.temp_id,
     text |-> data.text,
     media_url |-> data.media_url,
     sender_id |-> data.sender_id,
     receiver_id |-> data.receiver_id,
     created_at |-> data.created_at,
     edited |-> data.edited]

\* setMessages((prev) => ...) of the "message" case.
Upsert(prev, data) ==
    IF \E i \in 1..Len(prev) : Matches(prev[i], data)
    THEN [i \in 1..Len(prev) |->
            IF Matches(prev[i], data) THEN MergeEntry(prev[i], data) ELSE prev[i]]
    ELSE Append(prev, NewEntry(data))

\* The test that an inbound message belongs to the chat on screen, with the
\* currentUser and selectedUser of the handler's closure.
InConversation(data, cu, sel) ==
    \/ data.sender_id = cu /\ data.receiver_id = sel
    \/ data.receiver_id = cu /\ data.sender_id = sel

\* An edit that also rewrites the entries that are still pending.
ApplyEditOrPending(prev, id, text) ==
    [i \in 1..Len(prev) |->
        IF prev[i].message_id = id \/ Truthy(prev[i].temp_id)
        THEN [prev[i] EXCEPT !.text = text, !.edited = TRUE]
        ELSE prev[i]]

\* The optimistic update of handleEditMessage and the "edit" case.
ApplyEdit(prev, id, text) ==
    [i \in 1..Len(prev) |->
        IF prev[i].message_id = id
        THEN [prev[i] EXCEPT !.text = text, !.edited = TRUE]
        ELSE prev[i]]

\* prev.filter((m) => m.message_id !== id)
RECURSIVE RemoveId(_, _)
RemoveId(prev, id) ==
    IF prev = <<>> THEN <<>>
    ELSE IF Head(prev).message_id = id THEN RemoveId(Tail(prev), id)
    ELSE <<Head(prev)>> \o RemoveId(Tail(prev), id)

\* The server: the record it stores for a message frame, the "message"
\* event it sends for a stored record, and the conversation it returns.
SrvRecord(k, temp, from, to, text, media, t) ==
    [id |-> CanonId(k), temp |-> temp, from |-> from, to |-> to, text |-> text,
     media |-> media, created_at |-> t, edited |-> FALSE, deleted |-> FALSE]

EventOf(r) ==
    [message_id |-> r.id, temp_id |-> r.temp, text |-> r.text,
     media_url |-> r.media, sender_id |-> r.from, receiver_id |-> r.to,
     created_at |-> r.created_at, edited |-> r.edited]

RECURSIVE Snapshot(_, _, _)
Snapshot(db, a, b) ==
    IF db = <<>> THEN <<>>
    ELSE LET r == Head(db)
             keep == ~r.deleted /\ ((r.from = a /\ r.to = b) \/ (r.from = b /\ r.to = a))
         IN (IF keep THEN <<[EventOf(r) EXCEPT !.temp_id = Null]>> ELSE <<>>)
            \o Snapshot(Tail(db), a, b)

SrvEdit(db, id, text) ==
    [k \in 1..Len(db) |->
        IF db[k].id = id THEN [db[k] EXCEPT !.text = text, !.edited = TRUE]
        ELSE db[k]]

SrvDelete(db, id) ==
    [k \in 1..Len(db) |->
        IF db[k].id = id THEN [db[k] EXCEPT !.deleted = TRUE] ELSE db[k]]

NoUpload == [sel |-> Null, text |-> Null]

\* What a handler did: the connection state and the counter it found, the
\* frame it transmitted, the delay it scheduled, whether it created a
\* socket, the error it surfaced (setError), whether it called
\* navigate("/") (nav), and for an open or a close whether the socket had no
\* token to send.
\* For a "message" frame: the frame, the store it found, and whether the
\* handler that ran before it processed the same frame. For a send, a
\* settled REST call and a fetch response: the store it found and the
\* request it belongs to. For a "user_status" frame: the user (req.id) and
\* the is_online it carries (flag). For a failed fetch: its HTTP status.
NoReq == [kind |-> "none", id |-> Null, text |-> Null, sel |-> Null,
          oldText |-> Null, oldEdited |-> FALSE, inst |-> Current]

NoOp == [kind |-> "init", conn |-> "", attempts |-> 0, sent |-> "none",
         sched |-> 0, created |-> FALSE, err |-> "", nav |-> FALSE,
         noauth |-> FALSE, data |-> NoData, prev |-> <<>>, repeat |-> FALSE,
         req |-> NoReq, flag |-> FALSE, status |-> 0]

\* ------------------------------------------------------------------------
\* Initial state: the component has just been constructed, on a page that
\* lets it open WS_URL or not, with a token stored or not
\* ------------------------------------------------------------------------
Init ==
    /\ wsBlocked \in BOOLEAN
    /\ userRequest = "unsent"
    /\ mounted = TRUE
    /\ currentUser = Null
    /\ selectedUser = Null
    /\ token \in BOOLEAN
    /\ ws = NoSocket
    /\ orphans = EmptyBag
    /\ reconnectAttempts = 0
    /\ timers = EmptyBag
    /\ connectionStatus = "disconnected"
    /\ messages = <<>>
    /\ users = <<>>
    /\ usersAsked = FALSE
    /\ now = 1
    /\ srv = <<>>
    /\ upload = NoUpload
    /\ rest = <<>>
    /\ fetchTimers = {}
    /\ inflight = EmptyBag
    /\ op = NoOp
    /\ delayLog = <<>>

\* ------------------------------------------------------------------------
\* Connection manager
\* ------------------------------------------------------------------------

\* The texts error.response?.data?.detail can have; Null: there is none.
Details == {Null, "Not authenticated"}

\* The mount effect: without a token it shows an error and calls
\* navigate("/"); with one it sends GET /users/me.
FetchCurrentUser ==
    /\ userRequest = "unsent"
    /\ IF ~token
       THEN /\ userRequest' = "done"
            /\ op' = [NoOp EXCEPT !.kind = "mount", !.nav = TRUE,
                         !.err = "No authentication token found. Please log in."]
       ELSE /\ userRequest' = "pending"
            /\ op' = [NoOp EXCEPT !.kind = "mount"]
    /\ UNCHANGED <<wsBlocked, users, usersAsked, mounted, currentUser,
                   selectedUser, token, connVars, storeVars>>

\* setError of fetchUsers and of onopen when they find no token.
SessionExpired == "Session expired. Please log in again."

\* GET /users/me answers with a valid user: setCurrentUser(user). The
\* effects of the render that follows run: the users effect calls
\* fetchUsers, which sends GET /users and without a token shows an error
\* and calls navigate("/") instead, then the connect effect calls
\* connectWebSocket. Nothing happens on a component that was unmounted in
\* the meantime.
LoadCurrentUser ==
    /\ userRequest = "pending"
    /\ userRequest' = "done"
    /\ IF mounted
       THEN LET c == ConnectWebSocket(Me, ws, orphans, selectedUser)
                shown == IF token THEN "" ELSE SessionExpired
            IN /\ CanConnect(Me, ws, orphans)
               /\ ws' = c.ws
               /\ orphans' = c.orphans
               /\ connectionStatus' = StatusAfter(c)
               /\ op' = [NoOp EXCEPT !.kind = "load", !.created = c.created,
                                     !.nav = ~token,
                                     !.err = ErrorAfter(c, shown)]
               /\ currentUser' = Me
               /\ usersAsked' = token
       ELSE /\ op' = [NoOp EXCEPT !.kind = "load"]
            /\ UNCHANGED <<ws, orphans, connectionStatus, currentUser,
                           usersAsked>>
    /\ UNCHANGED <<wsBlocked, users, mounted, selectedUser, token, reconnectAttempts,
                   timers, delayLog, storeVars>>

\* The session ends in the mount effect: the error is shown, the token is
\* removed and navigate("/") is called.
EndInMount(err) ==
    /\ userRequest = "pending"
    /\ userRequest' = "done"
    /\ token' = FALSE
    /\ op' = [NoOp EXCEPT !.kind = "loadfailed", !.err = err, !.nav = TRUE]
    /\ UNCHANGED <<wsBlocked, users, usersAsked, mounted, currentUser,
                   selectedUser, connVars, storeVars>>

\* GET /users/me answers with something that is no user with a valid id.
InvalidCurrentUser ==
    EndInMount("Invalid user data received. Please log in again.")

\* GET /users/me fails: the catch of the mount effect.
LoadCurrentUserFailed(detail) ==
    /\ detail \in Details
    /\ EndInMount(OrStr(detail, "Failed to load user data. Please log in again."))

\* A click on a row of the user list: setSelectedUser(user), with the user
\* object of the list as GET /users built it last. The render that follows
\* has a new connectWebSocket and a new fetchMessages: the connect effect
\* cleans up and runs again, and the history effect calls the fetchMessages
\* of the new closure.
SelectUser(u) ==
    /\ mounted /\ currentUser # Null
    /\ LET closed == CloseSocket(ws)
           c == ConnectWebSocket(currentUser, closed, orphans, u)
           n == Retired(fetchTimers, rest)
       IN /\ CanConnect(currentUser, closed, orphans)
          /\ ws' = c.ws
          /\ orphans' = c.orphans
          /\ connectionStatus' = StatusAfter(c)
          /\ op' = [NoOp EXCEPT !.kind = "select", !.created = c.created,
                                !.conn = ConnState(ws, timers, reconnectAttempts),
                                !.attempts = reconnectAttempts,
                                !.err = ErrorAfter(c, "")]
          /\ fetchTimers' = Debounce(RetireTimers(fetchTimers, n), Current, u)
          /\ rest' = RetireCalls(rest, n)
    /\ Cardinality(fetchTimers') <= MaxFetch
    /\ selectedUser' = u
    /\ timers' = ClearTimeout(timers)
    /\ UNCHANGED <<wsBlocked, userRequest, users, usersAsked, mounted,
                   currentUser, token, reconnectAttempts, delayLog, messages,
                   now, srv, upload, inflight>>

\* React unmounts the component, after a navigate("/") or because the user
\* leaves the page: the effect's cleanup runs.
Unmount ==
    /\ mounted /\ userRequest # "unsent"
    /\ mounted' = FALSE
    /\ timers' = ClearTimeout(timers)
    /\ ws' = CloseSocket(ws)
    /\ op' = [NoOp EXCEPT !.kind = "unmount"]
    /\ UNCHANGED <<wsBlocked, userRequest, users, usersAsked, currentUser,
                   selectedUser, token, orphans, reconnectAttempts,
                   connectionStatus, delayLog, storeVars>>

\* handleLogout: the token is removed, ws.current is closed and
\* navigate("/") is called.
HandleLogout ==
    /\ mounted /\ userRequest # "unsent"
    /\ token' = FALSE
    /\ ws' = CloseSocket(ws)
    /\ op' = [NoOp EXCEPT !.kind = "logout", !.nav = TRUE]
    /\ UNCHANGED <<wsBlocked, userRequest, users, usersAsked, mounted,
                   currentUser, selectedUser, orphans, reconnectAttempts,
                   timers, connectionStatus, delayLog, storeVars>>

\* handleSubmit of the login page, shown at "/" once the chat page is left:
\* POST /login or /signup answers with an access token, which is stored.
\* The ChatPage that navigate("/chat") mounts next is another instance; the
\* callbacks of the one the model follows find the token from now on.
HandleSubmit ==
    /\ ~mounted
    /\ token' = TRUE
    /\ op' = [NoOp EXCEPT !.kind = "login"]
    /\ UNCHANGED <<wsBlocked, userRequest, users, usersAsked, mounted,
                   currentUser, selectedUser, connVars, storeVars>>

\* onopen of socket h.sock. It closes and sends on ws.current, whichever
\* socket that is by then; without a token it calls navigate("/").
OnOpen(h) ==
    /\ h.sock.st = "CONNECTING"
    /\ LET opened == [h.sock EXCEPT !.st = "OPEN", !.noauth = ~token]
           cur == WsAfter(h, opened)
           base == [NoOp EXCEPT !.kind = "open", !.noauth = ~token]
       IN /\ orphans' = OrphansAfter(h, opened)
          /\ IF ~token
             THEN /\ ws' = CloseSocket(cur)
                  /\ op' = [base EXCEPT !.nav = TRUE, !.err = SessionExpired]
             ELSE /\ ws' = IF cur.st = "OPEN" THEN Transmit(cur, "auth") ELSE cur
                  /\ op' = [base EXCEPT !.sent = IF cur.st = "OPEN"
                                                 THEN "auth" ELSE "none"]
    /\ connectionStatus' = IF mounted THEN "connected" ELSE connectionStatus
    /\ reconnectAttempts' = 0
    /\ delayLog' = <<>>
    /\ UNCHANGED <<wsBlocked, userRequest, users, usersAsked, mounted,
                   currentUser, selectedUser, token, timers, storeVars>>

\* A test that lets the counter at its limit retry once more.
MayRetryAtLimit(n) == n <= MaxAttempts

\* onclose's test for scheduling a reconnection.
MayRetry(n) == n < MaxAttempts

\* setError of onclose when the counter has reached its limit.
ReconnectFailed ==
    "Failed to reconnect to WebSocket. Polling enabled to keep messages updated."

\* setError of onerror.
ConnectionError == "WebSocket connection error. Attempting to reconnect..."

\* The ways socket r can close: the browser fires the error event before the
\* close event (TRUE) when the connection was failed, which is the end of
\* every socket that never opened; an open socket closes either way, and
\* the closing handshake of a socket that was open ends without an error.
Abnormal(r) ==
    IF r.st = "CONNECTING" \/ r.failed THEN {TRUE}
    ELSE IF r.st = "OPEN" THEN BOOLEAN
    ELSE {FALSE}

\* Socket h.sock closes: onerror when the closure is abnormal, then onclose
\* in the same task, whose "disconnected" replaces the "error" of onerror.
\* The error of onerror stays on screen unless onclose sets its own.
OnClose(h) ==
    /\ Live(h.sock)
    /\ MayRetry(reconnectAttempts) => BagCardinality(timers) < MaxTimers
    /\ ws' = WsAfter(h, ClosedSocket)
    /\ orphans' = OrphansAfter(h, ClosedSocket)
    /\ connectionStatus' = IF mounted THEN "disconnected" ELSE connectionStatus
    /\ \E abnormal \in Abnormal(h.sock) :
          LET base == [NoOp EXCEPT !.kind = "close",
                                  !.attempts = reconnectAttempts,
                                  !.noauth = h.sock.noauth,
                                  !.err = IF abnormal THEN ConnectionError ELSE ""]
          IN IF MayRetry(reconnectAttempts)
             THEN LET n == reconnectAttempts + 1
                  IN /\ reconnectAttempts' = n
                     /\ timers' = Schedule(timers, h.sock.sel)
                     /\ delayLog' = Append(delayLog, Delay(n))
                     /\ op' = [base EXCEPT !.sched = Delay(n)]
             ELSE /\ op' = [base EXCEPT !.err = ReconnectFailed]
                  /\ UNCHANGED <<reconnectAttempts, timers, delayLog>>
    /\ UNCHANGED <<wsBlocked, userRequest, users, usersAsked, mounted,
                   currentUser, selectedUser, token, storeVars>>

\* A "connection" frame, the server's acknowledgment, reaches socket h.sock.
OnConnectionFrame(h) ==
    /\ h.sock.st = "OPEN"
    /\ ~h.sock.noauth /\ ~h.sock.acked
    /\ ws' = WsAfter(h, [h.sock EXCEPT !.acked = TRUE])
    /\ orphans' = OrphansAfter(h, [h.sock EXCEPT !.acked = TRUE])
    /\ op' = [NoOp EXCEPT !.kind = "connection"]
    /\ UNCHANGED <<wsBlocked, userRequest, users, usersAsked, mounted,
                   currentUser, selectedUser, token, reconnectAttempts, timers,
                   connectionStatus, delayLog, storeVars>>

\* A pending reconnect timeout fires: connectWebSocket() of the closure
\* that scheduled it.
ReconnectTimer(t) ==
    /\ BagIn(t, timers)
    /\ CanConnect(currentUser, ws, orphans)
    /\ LET c == ConnectWebSocket(currentUser, ws, orphans, t.sel)
       IN /\ ws' = c.ws
          /\ orphans' = c.orphans
          /\ connectionStatus' = StatusAfter(c)
          /\ op' = [NoOp EXCEPT !.kind = "timer", !.created = c.created,
                                !.err = ErrorAfter(c, "")]
    /\ timers' = BagRemove(timers, t)
    /\ UNCHANGED <<wsBlocked, userRequest, users, usersAsked, mounted,
                   currentUser, selectedUser, token, reconnectAttempts,
                   delayLog, storeVars>>

\* ------------------------------------------------------------------------
\* Local intents
\* ------------------------------------------------------------------------

\* Time passes.
Tick ==
    /\ now < MaxClock
    /\ now' = now + 1
    /\ UNCHANGED <<wsBlocked, userRequest, users, usersAsked, mounted,
                   currentUser, selectedUser, token, connVars, op, messages,
                   srv, upload, rest, fetchTimers, inflight>>

\* What the server does with a frame sent on an open socket: it stores the
\* message (reached) or the frame is lost with the connection.
SrvAfterMessage(db, reached, temp, to, text, media, t) ==
    IF reached THEN Append(db, SrvRecord(Len(db) + 1, temp, Me, to, text, media, t))
    ELSE db

\* setError of a send that finds ws.current not open.
ConnectionLost == "Connection lost. Trying to reconnect..."

\* handleSendMessage with the text in the input box and no file chosen.
\* The input box and the send button are disabled while a file is uploaded.
HandleSendMessage(text, reached) ==
    /\ mounted /\ currentUser # Null /\ selectedUser # Null
    /\ upload = NoUpload
    /\ LET conn == ConnState(ws, timers, reconnectAttempts)
           base == [NoOp EXCEPT !.kind = "send", !.conn = conn, !.prev = messages]
       IN IF ~IsOpen(ws)
          THEN LET c == ConnectWebSocket(currentUser, ws, orphans, selectedUser)
               IN /\ CanConnect(currentUser, ws, orphans)
                  /\ ~reached
                  /\ ws' = c.ws
                  /\ orphans' = c.orphans
                  /\ connectionStatus' = StatusAfter(c)
                  /\ op' = [base EXCEPT !.err = ErrorAfter(c, ConnectionLost),
                                        !.created = c.created]
                  /\ UNCHANGED <<messages, srv>>
          ELSE /\ Len(messages) < MaxMsgs
               /\ reached => Len(srv) < MaxSrv
               /\ messages' = Append(messages,
                      PendingEntry(now, currentUser, selectedUser, text, Null))
               /\ srv' = SrvAfterMessage(srv, reached, TempId(now), selectedUser,
                                         text, Null, now)
               /\ op' = [base EXCEPT !.sent = "message"]
               /\ ws' = Transmit(ws, "message")
               /\ UNCHANGED <<orphans, connectionStatus>>
    /\ UNCHANGED <<wsBlocked, userRequest, users, usersAsked, mounted,
                   currentUser, selectedUser, token, reconnectAttempts, timers,
                   delayLog, now, upload, rest, fetchTimers, inflight>>

\* handleFileUpload up to its await: the upload request is issued.
HandleFileUpload(text) ==
    /\ mounted /\ currentUser # Null /\ selectedUser # Null
    /\ upload = NoUpload
    /\ upload' = [sel |-> selectedUser, text |-> text]
    /\ op' = [NoOp EXCEPT !.kind = "upload"]
    /\ UNCHANGED <<wsBlocked, userRequest, users, usersAsked, mounted,
                   currentUser, selectedUser, token, connVars, messages, now,
                   srv, rest, fetchTimers, inflight>>

\* setError of the catch of handleFileUpload when the error has no detail.
UploadError == "Failed to upload file. Please try again."

\* The error on screen after the continuation of handleFileUpload, which had
\* shown err: on an unmounted component fileInputRef.current is null, the
\* reset of the file input throws and the catch runs.
AfterInputReset(err) == IF mounted THEN err ELSE UploadError

\* handleFileUpload after its await: the upload succeeded.
UploadDone(reached) ==
    /\ upload # NoUpload
    /\ LET conn == ConnState(ws, timers, reconnectAttempts)
           base == [NoOp EXCEPT !.kind = "file", !.conn = conn, !.prev = messages]
       IN /\ mounted => Len(messages) < MaxMsgs
          /\ messages' = IF mounted
                         THEN Append(messages,
                                PendingEntry(now, currentUser, upload.sel, upload.text, "f"))
                         ELSE messages
          /\ IF IsOpen(ws)
             THEN /\ reached => Len(srv) < MaxSrv
                  /\ srv' = SrvAfterMessage(srv, reached, TempId(now), upload.sel,
                                            upload.text, "f", now)
                  /\ op' = [base EXCEPT !.sent = "message",
                                        !.err = AfterInputReset("")]
                  /\ ws' = Transmit(ws, "message")
                  /\ UNCHANGED <<orphans, connectionStatus>>
             ELSE LET c == ConnectWebSocket(currentUser, ws, orphans, upload.sel)
                  IN /\ CanConnect(currentUser, ws, orphans)
                     /\ ~reached
                     /\ ws' = c.ws
                     /\ orphans' = c.orphans
                     /\ connectionStatus' = StatusAfter(c)
                     /\ op' = [base EXCEPT
                                !.err = AfterInputReset(ErrorAfter(c, ConnectionLost)),
                                !.created = c.created]
                     /\ UNCHANGED srv
    /\ upload' = NoUpload
    /\ UNCHANGED <<wsBlocked, userRequest, users, usersAsked, mounted,
                   currentUser, selectedUser, token, reconnectAttempts, timers,
                   delayLog, now, rest, fetchTimers, inflight>>

\* handleFileUpload after its await: the upload failed, with or without a
\* detail text in the response.
UploadFailed(detail) ==
    /\ upload # NoUpload
    /\ detail \in Details
    /\ upload' = NoUpload
    /\ op' = [NoOp EXCEPT !.kind = "uploadfailed",
                          !.err = OrStr(detail, UploadError)]
    /\ UNCHANGED <<wsBlocked, userRequest, users, usersAsked, mounted,
                   currentUser, selectedUser, token, connVars, messages, now,
                   srv, rest, fetchTimers, inflight>>

\* The messages the edit and delete buttons are shown for.
OwnIds == {messages[i].message_id : i \in {j \in 1..Len(messages) :
              messages[j].sender_id = currentUser /\ Truthy(messages[j].message_id)}}

\* handleEditMessage(id) with the text in the edit box, up to the await of
\* the REST fallback.
HandleEditMessage(id, text) ==
    /\ mounted /\ currentUser # Null /\ selectedUser # Null
    /\ id \in OwnIds
    /\ messages' = ApplyEdit(messages, id, text)
    /\ LET conn == ConnState(ws, timers, reconnectAttempts)
           base == [NoOp EXCEPT !.kind = "edit", !.conn = conn, !.prev = messages]
           old == messages[CHOOSE i \in 1..Len(messages) : messages[i].message_id = id]
       IN IF IsOpen(ws)
          THEN /\ srv' = SrvEdit(srv, id, text)
               /\ op' = [base EXCEPT !.sent = "edit"]
               /\ ws' = Transmit(ws, "edit")
               /\ UNCHANGED rest
          ELSE /\ Len(rest) < MaxRest
               /\ rest' = Append(rest, [kind |-> "edit", id |-> id, text |-> text,
                                        sel |-> selectedUser, oldText |-> old.text,
                                        oldEdited |-> old.edited, inst |-> Current])
               /\ op' = [base EXCEPT !.err = "Connection lost. Saving edit via API..."]
               /\ UNCHANGED <<ws, srv>>
    /\ UNCHANGED <<wsBlocked, userRequest, users, usersAsked, mounted,
                   currentUser, selectedUser, token, orphans, reconnectAttempts,
                   timers, connectionStatus, delayLog, now, upload, fetchTimers,
                   inflight>>

\* handleDeleteMessage(id), confirmed, up to the await of the REST fallback.
HandleDeleteMessage(id) ==
    /\ mounted /\ currentUser # Null /\ selectedUser # Null
    /\ id \in OwnIds
    /\ messages' = RemoveId(messages, id)
    /\ LET conn == ConnState(ws, timers, reconnectAttempts)
           base == [NoOp EXCEPT !.kind = "delete", !.conn = conn, !.prev = messages]
       IN IF IsOpen(ws)
          THEN /\ srv' = SrvDelete(srv, id)
               /\ op' = [base EXCEPT !.sent = "delete"]
               /\ ws' = Transmit(ws, "delete")
               /\ UNCHANGED rest
          ELSE /\ Len(rest) < MaxRest
               /\ rest' = Append(rest, [kind |-> "delete", id |-> id, text |-> Null,
                                        sel |-> selectedUser, oldText |-> Null,
                                        oldEdited |-> FALSE, inst |-> Current])
               /\ op' = [base EXCEPT !.err = "Connection lost. Deleting via API..."]
               /\ UNCHANGED <<ws, srv>>
    /\ UNCHANGED <<wsBlocked, userRequest, users, usersAsked, mounted,
                   currentUser, selectedUser, token, orphans, reconnectAttempts,
                   timers, connectionStatus, delayLog, now, upload, fetchTimers,
                   inflight>>

\* The REST fallback of an edit or a delete succeeds: editMessageViaAPI or
\* deleteMessageViaAPI calls the fetchMessages of the closure the call was
\* made from.
RestDone(i) ==
    /\ i \in 1..Len(rest)
    /\ srv' = IF rest[i].kind = "edit" THEN SrvEdit(srv, rest[i].id, rest[i].text)
              ELSE SrvDelete(srv, rest[i].id)
    /\ fetchTimers' = Debounce(fetchTimers, rest[i].inst, rest[i].sel)
    /\ Cardinality(fetchTimers') <= MaxFetch
    /\ rest' = RemoveAt(rest, i)
    /\ op' = [NoOp EXCEPT !.kind = "restdone", !.req = rest[i], !.prev = messages]
    /\ UNCHANGED <<wsBlocked, userRequest, users, usersAsked, mounted,
                   currentUser, selectedUser, token, connVars, messages, now,
                   upload, inflight>>

\* The entry-by-entry "revert" of handleEditMessage's catch.
RevertEdit(prev, id) ==
    [i \in 1..Len(prev) |->
        IF prev[i].message_id = id
        THEN [prev[i] EXCEPT !.text = prev[i].text, !.edited = prev[i].edited \/ FALSE]
        ELSE prev[i]]

\* setError of the catch of editMessageViaAPI and deleteMessageViaAPI.
RestError(kind, detail) ==
    OrStr(detail, IF kind = "edit" THEN "Failed to edit message. Please try again."
                  ELSE "Failed to delete message. Please try again.")

\* The REST fallback fails, with or without a detail text in the response:
\* the catch of editMessageViaAPI or deleteMessageViaAPI shows the error,
\* then the catch of handleEditMessage or of handleDeleteMessage runs, the
\* latter calling the fetchMessages of its closure, and calls
\* connectWebSocket.
RestFailed(i, detail) ==
    /\ i \in 1..Len(rest)
    /\ detail \in Details
    /\ CanConnect(currentUser, ws, orphans)
    /\ LET c == ConnectWebSocket(currentUser, ws, orphans, rest[i].sel)
       IN /\ ws' = c.ws
          /\ orphans' = c.orphans
          /\ connectionStatus' = StatusAfter(c)
          /\ op' = [NoOp EXCEPT !.kind = "restfailed", !.created = c.created,
                                !.err = ErrorAfter(c, RestError(rest[i].kind, detail)),
                                !.req = rest[i], !.prev = messages]
    /\ messages' = IF mounted /\ rest[i].kind = "edit"
                   THEN RevertEdit(messages, rest[i].id) ELSE messages
    /\ fetchTimers' = IF rest[i].kind = "delete"
                      THEN Debounce(fetchTimers, rest[i].inst, rest[i].sel)
                      ELSE fetchTimers
    /\ Cardinality(fetchTimers') <= MaxFetch
    /\ rest' = RemoveAt(rest, i)
    /\ UNCHANGED <<wsBlocked, userRequest, users, usersAsked, mounted,
                   currentUser, selectedUser, token, reconnectAttempts, timers,
                   delayLog, now, srv, upload, inflight>>

\* ------------------------------------------------------------------------
\* Inbound frames and conversation fetches
\* ------------------------------------------------------------------------

\* The other user u sends a message to the current user: the server stores it.
PeerSend(u, text) ==
    /\ currentUser # Null
    /\ Len(srv) < MaxSrv
    /\ srv' = Append(srv, SrvRecord(Len(srv) + 1, Null, u, Me, text, Null, now))
    /\ op' = [NoOp EXCEPT !.kind = "peer"]
    /\ UNCHANGED <<wsBlocked, userRequest, users, usersAsked, mounted,
                   currentUser, selectedUser, token, connVars, messages, now,
                   upload, rest, fetchTimers, inflight>>

\* onmessage of socket h.sock for a frame of type "message".
OnMessage(h, data) ==
    /\ h.sock.st = "OPEN"
    /\ LET valid == /\ Truthy(data.sender_id) /\ Truthy(data.receiver_id)
                    /\ IsValidUUID(data.sender_id) /\ IsValidUUID(data.receiver_id)
           mine == InConversation(data, currentUser, h.sock.sel)
           stored == mounted /\ valid /\ mine
           base == [NoOp EXCEPT !.kind = "message", !.data = data,
                                !.prev = messages,
                                !.repeat = (op.kind = "message" /\ op.data = data
                                            /\ op.sent = "merged")]
       IN /\ messages' = IF stored THEN Upsert(messages, data) ELSE messages
          /\ Len(messages') <= MaxMsgs
          /\ op' = IF valid THEN [base EXCEPT !.sent = IF stored THEN "merged" ELSE "ignored"]
                   ELSE [base EXCEPT !.err = "Received invalid message data."]
    /\ UNCHANGED <<wsBlocked, userRequest, users, usersAsked, mounted,
                   currentUser, selectedUser, token, connVars, now, srv, upload,
                   rest, fetchTimers, inflight>>

\* The server sends the "message" event of its k-th record on socket h.sock.
Deliver(h, k) ==
    /\ k \in 1..Len(srv)
    /\ ~srv[k].deleted
    /\ OnMessage(h, EventOf(srv[k]))

\* The author of the server's k-th record edits it, or deletes it, from
\* another session.
AuthorEdit(k, text) ==
    /\ k \in 1..Len(srv)
    /\ ~srv[k].deleted /\ srv[k].text # text
    /\ srv' = SrvEdit(srv, srv[k].id, text)
    /\ op' = [NoOp EXCEPT !.kind = "peer"]
    /\ UNCHANGED <<wsBlocked, userRequest, users, usersAsked, mounted,
                   currentUser, selectedUser, token, connVars, messages, now,
                   upload, rest, fetchTimers, inflight>>

AuthorDelete(k) ==
    /\ k \in 1..Len(srv)
    /\ ~srv[k].deleted
    /\ srv' = SrvDelete(srv, srv[k].id)
    /\ op' = [NoOp EXCEPT !.kind = "peer"]
    /\ UNCHANGED <<wsBlocked, userRequest, users, usersAsked, mounted,
                   currentUser, selectedUser, token, connVars, messages, now,
                   upload, rest, fetchTimers, inflight>>

\* onmessage of socket h.sock for a frame of type "edit".
OnEdit(h, data) ==
    /\ h.sock.st = "OPEN"
    /\ messages' = IF mounted THEN ApplyEdit(messages, data.message_id, data.text)
                   ELSE messages
    /\ op' = [NoOp EXCEPT !.kind = "editevent", !.data = data, !.prev = messages]
    /\ UNCHANGED <<wsBlocked, userRequest, users, usersAsked, mounted,
                   currentUser, selectedUser, token, connVars, now, srv, upload,
                   rest, fetchTimers, inflight>>

\* onmessage of socket h.sock for a frame of type "delete".
OnDelete(h, data) ==
    /\ h.sock.st = "OPEN"
    /\ messages' = IF mounted THEN RemoveId(messages, data.message_id)
                   ELSE messages
    /\ op' = [NoOp EXCEPT !.kind = "deleteevent", !.data = data, !.prev = messages]
    /\ UNCHANGED <<wsBlocked, userRequest, users, usersAsked, mounted,
                   currentUser, selectedUser, token, connVars, now, srv, upload,
                   rest, fetchTimers, inflight>>

\* The server sends the "edit" event, or the "delete" event, of its k-th
\* record on socket h.sock.
DeliverEdit(h, k) ==
    /\ k \in 1..Len(srv)
    /\ srv[k].edited /\ ~srv[k].deleted
    /\ OnEdit(h, [NoData EXCEPT !.message_id = srv[k].id, !.text = srv[k].text])

DeliverDelete(h, k) ==
    /\ k \in 1..Len(srv)
    /\ srv[k].deleted
    /\ OnDelete(h, [NoData EXCEPT !.message_id = srv[k].id])

\* "message" frames that are not the event of a record: a participant id or
\* the message id is missing or malformed.
MalformedFrames ==
    {[NoData EXCEPT !.message_id = mid, !.sender_id = s, !.receiver_id = r,
                    !.text = "a", !.created_at = 1] :
        mid \in {CanonId(1), "bad"}, s \in {Null, "", "bad", "u1"},
        r \in {Null, "", "bad", Me}} \
    {[NoData EXCEPT !.message_id = CanonId(1), !.sender_id = "u1",
                    !.receiver_id = Me, !.text = "a", !.created_at = 1]}

\* Such a frame arrives on socket h.sock.
DeliverMalformed(h, data) ==
    /\ data \in MalformedFrames
    /\ OnMessage(h, data)

\* The user lists GET /users can answer: one entry has a malformed id.
UserLists ==
    {<<[id |-> "u1", is_online |-> a]>> : a \in BOOLEAN} \cup
    {<<[id |-> "u1", is_online |-> a], [id |-> "bad", is_online |-> TRUE],
       [id |-> "u2", is_online |-> b]>> : a, b \in BOOLEAN}

ValidUser(u) == IsValidUUID(u.id)

\* fetchUsers, called by the users effect and its 30 s interval: a GET
\* /users it has sent answers 200 with list.
UsersFetched(list) ==
    /\ usersAsked
    /\ list \in UserLists
    /\ users' = IF mounted THEN SelectSeq(list, ValidUser) ELSE users
    /\ op' = [NoOp EXCEPT !.kind = "users"]
    /\ UNCHANGED <<wsBlocked, userRequest, usersAsked, mounted, currentUser,
                   selectedUser, token, connVars, storeVars>>

\* The statuses GET /users can fail with (500: any other failure).
UsersFailures == {401, 500}

\* fetchUsers: a GET /users it has sent fails. For 401 the token is removed
\* and navigate("/") is called.
UsersFetchFailed(status) ==
    /\ usersAsked
    /\ status \in UsersFailures
    /\ LET ends == status = 401
       IN /\ token' = IF ends THEN FALSE ELSE token
          /\ op' = [NoOp EXCEPT !.kind = "usersfailed", !.status = status,
                       !.nav = ends,
                       !.err = IF ends THEN SessionExpired
                               ELSE "Failed to load users. Please try again."]
    /\ UNCHANGED <<wsBlocked, userRequest, users, usersAsked, mounted,
                   currentUser, selectedUser, connVars, storeVars>>

\* fetchUsers, called by the 30 s interval once the token is gone and
\* before React has unmounted the component: no request is sent.
UsersWithoutToken ==
    /\ mounted /\ currentUser # Null /\ ~token
    /\ op' = [NoOp EXCEPT !.kind = "userstoken", !.nav = TRUE,
                          !.err = SessionExpired]
    /\ UNCHANGED <<wsBlocked, userRequest, users, usersAsked, mounted,
                   currentUser, selectedUser, token, connVars, storeVars>>

\* A map that also adds the user it does not find.
SetOnlineOrAdd(prev, id, online) ==
    IF \E i \in 1..Len(prev) : prev[i].id = id
    THEN [i \in 1..Len(prev) |->
            IF prev[i].id = id THEN [prev[i] EXCEPT !.is_online = online]
            ELSE prev[i]]
    ELSE Append(prev, [id |-> id, is_online |-> online])

\* prev.map((u) => u.id === data.user_id ? {...u, is_online} : u)
SetOnline(prev, id, online) ==
    [i \in 1..Len(prev) |->
        IF prev[i].id = id THEN [prev[i] EXCEPT !.is_online = online]
        ELSE prev[i]]

\* onmessage of socket h.sock for a frame of type "user_status".
OnUserStatus(h, id, online) ==
    /\ h.sock.st = "OPEN"
    /\ users' = IF mounted THEN SetOnline(users, id, online) ELSE users
    /\ op' = [NoOp EXCEPT !.kind = "status", !.flag = online,
                          !.req = [NoReq EXCEPT !.kind = "status", !.id = id]]
    /\ UNCHANGED <<wsBlocked, userRequest, usersAsked, mounted, currentUser,
                   selectedUser, token, connVars, storeVars>>

\* String.prototype.includes
Includes(s, p) ==
    \E i \in 1..(Len(s) - Len(p) + 1) : SubSeq(s, i, i + Len(p) - 1) = p

\* A test that knows one phrase only.
OnlyInvalidToken(text) == Includes(text, "Invalid token")

\* The test of the "error" case for an error that ends the session.
AuthInvalidating(text) ==
    Includes(text, "Invalid token") \/ Includes(text, "User not found")

\* The texts of the "error" frames; Null: the frame has no error field.
ErrorTexts == {"Invalid token", "Error: Invalid token supplied",
               "User not found", "Message too long", Null}

\* onmessage of socket h.sock for a frame of type "error": setError, and for
\* an error that ends the session removeItem("token") and navigate("/").
\* Without an error field the test throws and the catch of onmessage
\* reports it.
OnErrorFrame(h, text) ==
    /\ h.sock.st = "OPEN"
    /\ text \in ErrorTexts
    /\ LET ends == text # Null /\ AuthInvalidating(text)
           base == [NoOp EXCEPT !.kind = "error", !.data = [NoData EXCEPT !.text = text]]
       IN /\ token' = IF ends THEN FALSE ELSE token
          /\ op' = IF text = Null
                   THEN [base EXCEPT !.err =
                           "Error receiving message. Please check your connection."]
                   ELSE [base EXCEPT !.err = text, !.nav = ends]
    /\ UNCHANGED <<wsBlocked, userRequest, users, usersAsked, mounted,
                   currentUser, selectedUser, connVars, storeVars>>

\* The statuses GET /messages can fail with (500: any other failure).
FetchFailures == {401, 403, 404, 500}

\* setError of the catch of fetchMessages.
FetchError(status) ==
    IF status = 401 THEN SessionExpired
    ELSE IF status = 403 THEN "Access denied. Please log out and log in again."
    ELSE IF status = 404 THEN "One or both users not found. Please select a valid user."
    ELSE "Failed to load messages. Please try again."

\* A GET /messages of conversation u fails: the catch of fetchMessages.
\* For 401 and 403 it removes the token and calls navigate("/").
FetchFailed(u, status) ==
    /\ BagIn(u, inflight)
    /\ status \in FetchFailures
    /\ inflight' = BagRemove(inflight, u)
    /\ LET ends == status \in {401, 403}
       IN /\ token' = IF ends THEN FALSE ELSE token
          /\ op' = [NoOp EXCEPT !.kind = "fetchfailed", !.prev = messages,
                                !.status = status, !.err = FetchError(status),
                                !.nav = ends,
                                !.req = [NoReq EXCEPT !.kind = "fetch", !.sel = u]]
    /\ UNCHANGED <<wsBlocked, userRequest, users, usersAsked, mounted,
                   currentUser, selectedUser, connVars, messages, now, srv,
                   upload, rest, fetchTimers>>

\* The 5 s polling interval of the history effect: the fetchMessages of the
\* closure in force is called when ws.current is not open.
PollTick ==
    /\ mounted /\ currentUser # Null /\ selectedUser # Null
    /\ LET fetch == ~IsOpen(ws)
       IN /\ fetchTimers' = IF fetch THEN Debounce(fetchTimers, Current, selectedUser)
                            ELSE fetchTimers
          /\ op' = [NoOp EXCEPT !.kind = "poll",
                                !.conn = ConnState(ws, timers, reconnectAttempts),
                                !.sent = IF fetch THEN "fetch" ELSE "none"]
    /\ Cardinality(fetchTimers') <= MaxFetch
    /\ UNCHANGED <<wsBlocked, userRequest, users, usersAsked, mounted,
                   currentUser, selectedUser, token, connVars, messages, now,
                   srv, upload, rest, inflight>>

\* The debounce timeout t of a fetchMessages instance fires: the GET request
\* for the conversation of its closure is issued.
FetchIssue(t) ==
    /\ t \in fetchTimers
    /\ BagCardinality(inflight) < MaxGets
    /\ fetchTimers' = fetchTimers \ {t}
    /\ inflight' = BagAdd(inflight, t.sel)
    /\ op' = [NoOp EXCEPT !.kind = "fetch",
                          !.req = [NoReq EXCEPT !.kind = "fetch", !.sel = t.sel,
                                                !.inst = t.inst]]
    /\ UNCHANGED <<wsBlocked, userRequest, users, usersAsked, mounted,
                   currentUser, selectedUser, token, connVars, messages, now,
                   srv, upload, rest>>

\* A GET /messages of conversation u answers 200.
FetchDone(u) ==
    /\ BagIn(u, inflight)
    /\ inflight' = BagRemove(inflight, u)
    /\ messages' = IF mounted THEN Snapshot(srv, currentUser, u) ELSE messages
    /\ op' = [NoOp EXCEPT !.kind = "fetched", !.prev = messages,
                          !.req = [NoReq EXCEPT !.kind = "fetch", !.sel = u]]
    /\ UNCHANGED <<wsBlocked, userRequest, users, usersAsked, mounted,
                   currentUser, selectedUser, token, connVars, now, srv, upload,
                   rest, fetchTimers>>

Texts == {"a", "b"}

Next ==
    \/ FetchCurrentUser
    \/ LoadCurrentUser
    \/ InvalidCurrentUser
    \/ \E detail \in Details : LoadCurrentUserFailed(detail)
    \/ \E u \in Peers : SelectUser(u)
    \/ Unmount
    \/ HandleLogout
    \/ HandleSubmit
    \/ \E h \in Handles : OnOpen(h)
    \/ \E h \in Handles : OnClose(h)
    \/ \E h \in Handles : OnConnectionFrame(h)
    \/ \E t \in BagToSet(timers) : ReconnectTimer(t)
    \/ Tick
    \/ \E text \in Texts, reached \in BOOLEAN : HandleSendMessage(text, reached)
    \/ \E text \in Texts \cup {""} : HandleFileUpload(text)
    \/ \E reached \in BOOLEAN : UploadDone(reached)
    \/ \E detail \in Details : UploadFailed(detail)
    \/ \E id \in OwnIds, text \in Texts : HandleEditMessage(id, text)
    \/ \E id \in OwnIds : HandleDeleteMessage(id)
    \/ \E i \in 1..MaxRest : RestDone(i)
    \/ \E i \in 1..MaxRest, detail \in Details : RestFailed(i, detail)
    \/ \E u \in Peers, text \in Texts : PeerSend(u, text)
    \/ \E h \in Handles, k \in 1..MaxSrv : Deliver(h, k)
    \/ \E k \in 1..MaxSrv, text \in Texts : AuthorEdit(k, text)
    \/ \E k \in 1..MaxSrv : AuthorDelete(k)
    \/ \E h \in Handles, k \in 1..MaxSrv : DeliverEdit(h, k)
    \/ \E h \in Handles, k \in 1..MaxSrv : DeliverDelete(h, k)
    \/ \E h \in Handles, data \in MalformedFrames : DeliverMalformed(h, data)
    \/ \E list \in UserLists : UsersFetched(list)
    \/ \E status \in UsersFailures : UsersFetchFailed(status)
    \/ UsersWithoutToken
    \/ \E h \in Handles, id \in Peers \cup {"bad"}, online \in BOOLEAN :
          OnUserStatus(h, id, online)
    \/ \E h \in Handles, text \in ErrorTexts : OnErrorFrame(h, text)
    \/ PollTick
    \/ \E t \in fetchTimers : FetchIssue(t)
    \/ \E u \in Peers : FetchDone(u)
    \/ \E u \in Peers, status \in FetchFailures : FetchFailed(u, status)

Spec == Init /\ [][Next]_vars

\* ------------------------------------------------------------------------
\* Scenarios: behaviours of Spec under a narrower environment
\* ------------------------------------------------------------------------

\* The user opens the conversation with u1 and stays in it.
OpenConversation == selectedUser = Null /\ SelectUser("u1")

\* Send is pressed while ws.current is not open: handleSendMessage reports
\* the failure and calls connectWebSocket.
SendWhileDown == ~IsOpen(ws) /\ HandleSendMessage("a", FALSE)

\* No fetch of a conversation is under way.
Settled == fetchTimers = {} /\ inflight = EmptyBag

\* The user changes the conversation once the history of the one on screen
\* has been asked for and has arrived.
SwitchConversation(u) == Settled /\ SelectUser(u)

\* React unmounts the component after a navigate("/").
UnmountAfterNavigate == ~token /\ Unmount

\* The close of a socket the program closed itself: the network never
\* fails, and onerror runs only for a socket that was closed before it had
\* opened.
OnCloseAfterClose(h) == h.sock.st = "CLOSING" /\ OnClose(h)

\* The connection manager under every event that reaches it, with one peer
\* in the user list, whose row the user clicks again and again, while the
\* history of the conversation loads at once: the debounce of a selection
\* fires and its GET answers before the next event. The sends are the ones
\* that call connectWebSocket.
NextConn ==
    \/ Settled /\ FetchCurrentUser
    \/ Settled /\ LoadCurrentUser
    \/ Settled /\ InvalidCurrentUser
    \/ \E detail \in Details : Settled /\ LoadCurrentUserFailed(detail)
    \/ Settled /\ SelectUser("u1")
    \/ Settled /\ Unmount
    \/ Settled /\ HandleLogout
    \/ Settled /\ HandleSubmit
    \/ \E h \in Handles : Settled /\ OnOpen(h)
    \/ \E h \in Handles : Settled /\ OnClose(h)
    \/ \E h \in Handles : Settled /\ OnConnectionFrame(h)
    \/ \E t \in BagToSet(timers) : Settled /\ ReconnectTimer(t)
    \/ Settled /\ SendWhileDown
    \/ \E t \in fetchTimers : FetchIssue(t)
    \/ FetchDone("u1")

SpecConn == Init /\ [][NextConn]_vars

\* The message store of one conversation over a network that does not fail.
NextStore ==
    \/ FetchCurrentUser
    \/ LoadCurrentUser
    \/ OpenConversation
    \/ \E h \in Handles : OnOpen(h)
    \/ \E h \in Handles : OnCloseAfterClose(h)
    \/ \E t \in BagToSet(timers) : ReconnectTimer(t)
    \/ Tick
    \/ \E reached \in BOOLEAN : HandleSendMessage("a", reached)
    \/ HandleFileUpload("a")
    \/ \E reached \in BOOLEAN : UploadDone(reached)
    \/ \E u \in Peers : PeerSend(u, "b")
    \/ \E h \in Handles, k \in 1..MaxSrv : Deliver(h, k)
    \/ PollTick
    \/ \E t \in fetchTimers : FetchIssue(t)
    \/ \E u \in Peers : FetchDone(u)

SpecStore == Init /\ [][NextStore]_vars

\* The local operations of one conversation over a network that fails; no
\* frame the user sends reaches the server.
NextOps ==
    \/ FetchCurrentUser
    \/ LoadCurrentUser
    \/ OpenConversation
    \/ \E h \in Handles : OnOpen(h)
    \/ \E h \in Handles : OnConnectionFrame(h)
    \/ \E h \in Handles : OnClose(h)
    \/ \E t \in BagToSet(timers) : ReconnectTimer(t)
    \/ HandleSendMessage("a", FALSE)
    \/ HandleFileUpload("a")
    \/ UploadDone(FALSE)
    \/ \E detail \in Details : UploadFailed(detail)
    \/ \E id \in OwnIds : HandleEditMessage(id, "b")
    \/ \E id \in OwnIds : HandleDeleteMessage(id)
    \/ \E i \in 1..MaxRest : RestDone(i)
    \/ \E i \in 1..MaxRest, detail \in Details : RestFailed(i, detail)

SpecOps == Init /\ [][NextOps]_vars

\* Edits and deletes of one conversation with their REST fallback and the
\* conversation fetches, over a network that fails; no frame the user sends
\* reaches the server.
NextFallback ==
    \/ FetchCurrentUser
    \/ LoadCurrentUser
    \/ OpenConversation
    \/ \E h \in Handles : OnOpen(h)
    \/ \E h \in Handles : OnClose(h)
    \/ \E t \in BagToSet(timers) : ReconnectTimer(t)
    \/ HandleSendMessage("a", FALSE)
    \/ \E id \in OwnIds : HandleEditMessage(id, "b")
    \/ \E id \in OwnIds : HandleDeleteMessage(id)
    \/ \E i \in 1..MaxRest : RestDone(i)
    \/ \E i \in 1..MaxRest, detail \in Details : RestFailed(i, detail)
    \/ PollTick
    \/ \E t \in fetchTimers : FetchIssue(t)
    \/ \E u \in Peers : FetchDone(u)

SpecFallback == Init /\ [][NextFallback]_vars

\* Edit and delete pressed while ws.current is open: the frame goes out on
\* the socket and no REST call is made.
EditWhileOpen(id) == IsOpen(ws) /\ HandleEditMessage(id, "b")

DeleteWhileOpen(id) == IsOpen(ws) /\ HandleDeleteMessage(id)

\* Send is pressed, or a file is chosen, while the store is empty; a send
\* that finds ws.current not open stores nothing and is made at any time.
SendInEmptyStore ==
    (IsOpen(ws) => messages = <<>>) /\ HandleSendMessage("a", FALSE)

UploadInEmptyStore == messages = <<>> /\ HandleFileUpload("a")

\* The frames the client puts on its sockets in one conversation that holds
\* a message or two of the user, over a network that fails, while the user
\* logs out, the server ends the session, the page is left and the user
\* logs in again; no frame the user sends reaches the server.
NextFrames ==
    \/ FetchCurrentUser
    \/ LoadCurrentUser
    \/ OpenConversation
    \/ HandleLogout
    \/ \E h \in Handles : OnErrorFrame(h, "Invalid token")
    \/ Unmount
    \/ HandleSubmit
    \/ \E h \in Handles : OnOpen(h)
    \/ \E h \in Handles : OnClose(h)
    \/ \E t \in BagToSet(timers) : ReconnectTimer(t)
    \/ SendInEmptyStore
    \/ UploadInEmptyStore
    \/ UploadDone(FALSE)
    \/ \E id \in OwnIds : EditWhileOpen(id)
    \/ \E id \in OwnIds : DeleteWhileOpen(id)

SpecFrames == Init /\ [][NextFrames]_vars

\* Conversation switches: the user moves between the conversations while
\* the peers write and the network fails. The user sends nothing.
NextSwitch ==
    \/ FetchCurrentUser
    \/ LoadCurrentUser
    \/ \E u \in Peers : SwitchConversation(u)
    \/ \E h \in Handles : OnOpen(h)
    \/ \E h \in Handles : OnClose(h)
    \/ \E t \in BagToSet(timers) : ReconnectTimer(t)
    \/ \E u \in Peers : PeerSend(u, "b")
    \/ \E h \in Handles : OnConnectionFrame(h)
    \/ \E h \in Handles, k \in 1..MaxSrv : Deliver(h, k)
    \/ \E t \in fetchTimers : FetchIssue(t)
    \/ \E u \in Peers : FetchDone(u)

SpecSwitch == Init /\ [][NextSwitch]_vars

\* The conversation history: the user moves between the conversations while
\* u1 writes and the history is fetched, over a network that does not fail.
NextHistory ==
    \/ FetchCurrentUser
    \/ LoadCurrentUser
    \/ \E u \in Peers : SelectUser(u)
    \/ \E h \in Handles : OnOpen(h)
    \/ \E h \in Handles : OnCloseAfterClose(h)
    \/ \E t \in BagToSet(timers) : ReconnectTimer(t)
    \/ HandleSendMessage("a", FALSE)
    \/ PeerSend("u1", "b")
    \/ PollTick
    \/ \E t \in fetchTimers : FetchIssue(t)
    \/ \E u \in Peers : FetchDone(u)

SpecHistory == Init /\ [][NextHistory]_vars

\* The fallback synchronizer of one conversation: the polling interval and
\* the fetches it starts while the connection comes and goes.
NextPoll ==
    \/ FetchCurrentUser
    \/ LoadCurrentUser
    \/ OpenConversation
    \/ \E h \in Handles : OnOpen(h)
    \/ \E h \in Handles : OnConnectionFrame(h)
    \/ \E h \in Handles : OnClose(h)
    \/ \E t \in BagToSet(timers) : ReconnectTimer(t)
    \/ \E u \in Peers : PeerSend(u, "b")
    \/ PollTick
    \/ \E t \in fetchTimers : FetchIssue(t)
    \/ \E u \in Peers : FetchDone(u)

SpecPoll == Init /\ [][NextPoll]_vars

\* Inbound events of one conversation on its socket: messages, edits and
\* deletes of both sides, while the user sends.
NextEvents ==
    \/ FetchCurrentUser
    \/ LoadCurrentUser
    \/ OpenConversation
    \/ \E h \in Handles : OnOpen(h)
    \/ \E reached \in BOOLEAN : HandleSendMessage("a", reached)
    \/ PeerSend("u1", "a")
    \/ \E h \in Handles, k \in 1..MaxSrv : Deliver(h, k)
    \/ \E k \in 1..MaxSrv : AuthorEdit(k, "b")
    \/ \E k \in 1..MaxSrv : AuthorDelete(k)
    \/ \E h \in Handles, k \in 1..MaxSrv : DeliverEdit(h, k)
    \/ \E h \in Handles, k \in 1..MaxSrv : DeliverDelete(h, k)

SpecEvents == Init /\ [][NextEvents]_vars

\* Inbound frames of one conversation that the client has to validate,
\* next to the events of the peer's messages.
NextInbound ==
    \/ FetchCurrentUser
    \/ LoadCurrentUser
    \/ OpenConversation
    \/ \E h \in Handles : OnOpen(h)
    \/ \E h \in Handles : OnCloseAfterClose(h)
    \/ \E t \in BagToSet(timers) : ReconnectTimer(t)
    \/ PeerSend("u1", "b")
    \/ \E h \in Handles, k \in 1..MaxSrv : Deliver(h, k)
    \/ \E h \in Handles, data \in MalformedFrames : DeliverMalformed(h, data)

SpecInbound == Init /\ [][NextInbound]_vars

\* The presence table: the user list is fetched again and again while
\* "user_status" frames arrive and the peer writes.
NextPresence ==
    \/ FetchCurrentUser
    \/ LoadCurrentUser
    \/ OpenConversation
    \/ \E h \in Handles : OnOpen(h)
    \/ \E list \in UserLists : UsersFetched(list)
    \/ \E h \in Handles, id \in Peers \cup {"bad"}, online \in BOOLEAN :
          OnUserStatus(h, id, online)
    \/ PeerSend("u1", "b")
    \/ \E h \in Handles, k \in 1..MaxSrv : Deliver(h, k)

SpecPresence == Init /\ [][NextPresence]_vars

\* "error" frames of the server in one conversation, over a network that
\* fails, while the peer writes.
NextErrors ==
    \/ FetchCurrentUser
    \/ LoadCurrentUser
    \/ OpenConversation
    \/ \E h \in Handles : OnOpen(h)
    \/ \E h \in Handles : OnClose(h)
    \/ \E t \in BagToSet(timers) : ReconnectTimer(t)
    \/ PeerSend("u1", "b")
    \/ \E h \in Handles, k \in 1..MaxSrv : Deliver(h, k)
    \/ \E h \in Handles, text \in ErrorTexts : OnErrorFrame(h, text)
    \/ \E status \in UsersFailures : UsersFetchFailed(status)
    \/ UsersWithoutToken
    \/ UnmountAfterNavigate
    \/ HandleSubmit

SpecErrors == Init /\ [][NextErrors]_vars

\* The conversation fetches of one conversation and their failures, over a
\* network that fails, while the peer writes.
NextFetchErrors ==
    \/ FetchCurrentUser
    \/ LoadCurrentUser
    \/ OpenConversation
    \/ \E h \in Handles : OnOpen(h)
    \/ \E h \in Handles : OnClose(h)
    \/ \E t \in BagToSet(timers) : ReconnectTimer(t)
    \/ PeerSend("u1", "b")
    \/ PollTick
    \/ \E t \in fetchTimers : FetchIssue(t)
    \/ \E u \in Peers : FetchDone(u)
    \/ \E u \in Peers, status \in FetchFailures : FetchFailed(u, status)
    \/ UnmountAfterNavigate
    \/ HandleSubmit

SpecFetchErrors == Init /\ [][NextFetchErrors]_vars

\* ------------------------------------------------------------------------
\* Properties
\* ------------------------------------------------------------------------

\* The entries of a store that carry message_id id.
CountId(store, id) == Cardinality({i \in 1..Len(store) : store[i].message_id = id})

\* The "message" handler has just merged the server's echo of a local send:
\* the frame carries a canonical id and the provisional identity of an entry
\* the store held.
EchoOfPending ==
    /\ op.kind = "message" /\ op.sent = "merged"
    /\ Truthy(op.data.message_id) /\ Truthy(op.data.temp_id)
    /\ \E i \in 1..Len(op.prev) : op.prev[i].temp_id = op.data.temp_id

\* C1: the echo of a local send updates the pending entry in place: the
\* store keeps its size, exactly one entry carries the canonical id, and no
\* entry carries the provisional identity any more.
C1_IdentityPromotion ==
    EchoOfPending =>
        /\ Len(messages) = Len(op.prev)
        /\ CountId(messages, op.data.message_id) = 1
        /\ \A i \in 1..Len(messages) :
              /\ messages[i].temp_id # op.data.temp_id
              /\ messages[i].message_id # op.data.temp_id

\* C2: no two entries of the store have the same message_id, and no two
\* pending entries have the same temp_id.
C2_UniqueIdentity ==
    \A i, j \in 1..Len(messages) :
        i < j =>
            /\ messages[i].message_id # messages[j].message_id
            /\ (Truthy(messages[i].temp_id) /\ Truthy(messages[j].temp_id))
                  => messages[i].temp_id # messages[j].temp_id

\* The same canonical "message" frame has just been merged a second time.
SecondDelivery ==
    /\ op.kind = "message" /\ op.sent = "merged" /\ op.repeat
    /\ Truthy(op.data.message_id)

\* The fields of entry m are the non-null fields of the frame, and those of
\* the entry before where the frame has none.
MergedFrom(m, before, data) ==
    /\ m.message_id = data.message_id
    /\ m.text = (IF data.text # Null THEN data.text ELSE before.text)
    /\ m.media_url = (IF data.media_url # Null THEN data.media_url ELSE before.media_url)
    /\ m.sender_id = data.sender_id
    /\ m.receiver_id = data.receiver_id
    /\ m.created_at = (IF data.created_at # 0 THEN data.created_at ELSE before.created_at)

\* C3: the second delivery of a canonical message event leaves the store at
\* the same size with exactly one entry for that message_id, which holds the
\* frame's non-null fields and the previous values elsewhere.
C3_DedupIdempotence ==
    SecondDelivery =>
        /\ Len(messages) = Len(op.prev)
        /\ CountId(messages, op.data.message_id) = 1
        /\ \A i \in 1..Len(messages) :
              messages[i].message_id = op.data.message_id
                  => MergedFrom(messages[i], op.prev[i], op.data)

\* The delays of five failures in a row, in milliseconds.
Backoff == <<2000, 4000, 8000, 10000, 10000>>

\* C4: from counter 0, the closes that follow one another with no open in
\* between schedule 2 s, 4 s, 8 s, 10 s, 10 s in that order; a close that
\* finds the counter at five schedules nothing and reports the failure, and
\* with no socket and no timer left the manager is Degraded.
C4_BackoffSequence ==
    /\ reconnectAttempts \in 0..MaxAttempts
    /\ delayLog = SubSeq(Backoff, 1, reconnectAttempts)
    /\ (op.kind = "close" /\ op.attempts < MaxAttempts)
          => op.sched = Backoff[op.attempts + 1]
    /\ (op.kind = "close" /\ op.attempts = MaxAttempts)
          => /\ op.sched = 0
             /\ op.err = ReconnectFailed
             /\ (timers = EmptyBag /\ ~Live(ws))
                   => ConnState(ws, timers, reconnectAttempts) = "Degraded"

\* Five delays have been scheduled and the sixth close has found the
\* counter at five.
C4_Witness ==
    /\ op.kind = "close" /\ op.attempts = MaxAttempts
    /\ delayLog = Backoff
    /\ ConnState(ws, timers, reconnectAttempts) = "Degraded"

\* C5: the attempt counter goes back to 0 only in the step that receives the
\* server's acknowledgment (there is no manual reset in the program).
C5_ResetOnlyOnAck ==
    [][(reconnectAttempts # 0 /\ reconnectAttempts' = 0) => op'.kind = "connection"]_vars

\* C6: at most one reconnect timer is pending, and none is pending once a
\* socket has opened.
C6_OneTimer ==
    /\ BagCardinality(timers) <= 1
    /\ op.kind = "open" => timers = EmptyBag

\* C7: once the component is torn down no reconnect timer is pending and no
\* timer opens a new socket.
C7_TeardownIsFinal ==
    ~mounted =>
        /\ timers = EmptyBag
        /\ ~(op.kind = "timer" /\ op.created)

\* The sockets that are connecting or open.
Usable(r) == r.st \in {"CONNECTING", "OPEN"}

UsableSockets ==
    (IF Usable(ws) THEN 1 ELSE 0)
    + BagCardinality([o \in {x \in BagToSet(orphans) : Usable(x)} |-> CopiesIn(o, orphans)])

\* C8: at most one socket is connecting or open at any time.
C8_OneLiveSocket == UsableSockets <= 1

\* C9: a socket that opens with no token stored sends no auth frame and
\* surfaces the failure, and its close schedules no reconnection.
C9_NoTokenIsFinal ==
    /\ (op.kind = "open" /\ op.noauth) => (op.sent = "none" /\ op.err # "")
    /\ (op.kind = "close" /\ op.noauth) => op.sched = 0

\* C10: a send, a file send, an edit or a delete transmits its frame only
\* in state Connected; in every other state it transmits nothing and
\* reports the failure.
C10_SendOnlyWhenConnected ==
    op.kind \in {"send", "file", "edit", "delete"} =>
        /\ op.sent # "none" => op.conn = "Connected"
        /\ op.conn # "Connected" => (op.sent = "none" /\ op.err # "")

\* Every socket the client still holds a handle or a handler of.
AllSockets == {ws} \cup BagToSet(orphans)

\* The handlers that transmit a message, edit or delete frame.
SendKinds == {"send", "file", "edit", "delete"}

\* C11: the first frame the client sends on any socket is the auth frame: it
\* goes out, with the stored token, in the step in which ws.current opens,
\* and a message, edit or delete frame only goes out on a socket that has
\* already carried it.
C11_AuthFirst ==
    /\ \A r \in AllSockets : r.first \in {"none", "auth"}
    /\ IsOpen(ws) => ws.first = "auth"
    /\ (op.kind = "open" /\ op.sent = "auth") => (token /\ ws.first = "auth")
    /\ (op.kind \in SendKinds /\ op.sent # "none") => ws.first = "auth"

\* A message, edit or delete frame has just gone out while a second socket,
\* replaced before it opened, is open as well.
C11_Witness ==
    /\ op.kind \in SendKinds /\ op.sent # "none"
    /\ ws.first = "auth"
    /\ \E o \in BagToSet(orphans) : o.st = "OPEN" /\ o.first = "none"

\* An entry that carries only a provisional identity.
IsPending(m) == Truthy(m.temp_id) /\ m.message_id = m.temp_id

\* C12: a text or file send, in any connection state, appends exactly one
\* pending entry whose provisional identity no earlier entry has; when the
\* frame could not be sent it surfaces a failure and a connection attempt
\* is under way.
C12_SendAlwaysQueues ==
    op.kind \in {"send", "file"} =>
        /\ Len(messages) = Len(op.prev) + 1
        /\ SubSeq(messages, 1, Len(op.prev)) = op.prev
        /\ IsPending(messages[Len(messages)])
        /\ \A i \in 1..Len(op.prev) :
              /\ op.prev[i].temp_id # messages[Len(messages)].temp_id
              /\ op.prev[i].message_id # messages[Len(messages)].message_id
        /\ op.sent = "none" => (op.err # "" /\ ws.st \in {"CONNECTING", "OPEN"})

\* The REST fallback of an edit has just failed.
EditFallbackFailed == op.kind = "restfailed" /\ op.req.kind = "edit"

\* C13: after the REST fallback of an edit of M has failed, M has the text
\* and the edited flag it had before the edit, and the other entries are
\* what they were.
C13_OptimisticRevert ==
    EditFallbackFailed =>
        /\ Len(messages) = Len(op.prev)
        /\ \A i \in 1..Len(messages) :
              IF messages[i].message_id = op.req.id
              THEN /\ messages[i].text = op.req.oldText
                   /\ messages[i].edited = op.req.oldEdited
              ELSE messages[i] = op.prev[i]

\* The store holds the value the failed REST call's message had before the
\* optimistic mutation: the edited entry has its old text and flag, the
\* deleted entry is back.
PreMutationValue ==
    IF op.req.kind = "edit"
    THEN \A i \in 1..Len(messages) :
            messages[i].message_id = op.req.id
                => /\ messages[i].text = op.req.oldText
                   /\ messages[i].edited = op.req.oldEdited
    ELSE \E i \in 1..Len(messages) : messages[i].message_id = op.req.id

\* A fetch of the conversation the REST call was made in is under way.
ResyncUnderWay ==
    \/ \E t \in fetchTimers : t.sel = op.req.sel
    \/ BagIn(op.req.sel, inflight)

\* C14: when the REST fallback of an edit or a delete has failed, the
\* message has its pre-mutation value or a full fetch of the conversation is
\* under way; after a failed delete the fetch is always under way.
C14_FailureResyncs ==
    op.kind = "restfailed" =>
        /\ PreMutationValue \/ ResyncUnderWay
        /\ op.req.kind = "delete" => ResyncUnderWay

\* The event carries two well-formed participant ids.
WellFormed(data) ==
    data.sender_id \in ValidUUIDs /\ data.receiver_id \in ValidUUIDs

\* The event belongs to the conversation that is active now.
ForActive(data) == InConversation(data, currentUser, selectedUser)

\* C15: an inbound message event whose (sender_id, receiver_id) pair is not
\* the pair of the active conversation, in either direction, leaves the
\* message store as it was, also after conversation switches and
\* reconnections.
C15_CrossConversationIsolation ==
    (op.kind = "message" /\ ~ForActive(op.data)) => messages = op.prev

\* C16: an inbound message event with well-formed participant ids whose pair
\* is the pair of the active conversation is merged: once it is processed
\* the store holds an entry for it, whatever switches, reconnect timers and
\* reconnections came before.
C16_ActiveEventMerged ==
    (mounted /\ op.kind = "message" /\ WellFormed(op.data) /\ ForActive(op.data))
        => \E i \in 1..Len(messages) : messages[i].message_id = op.data.message_id

\* C17: a conversation switch made while a socket is open keeps that socket:
\* it is still ws.current and open, no socket is created, and the attempt
\* counter is what it was.
C17_SwitchKeepsConnection ==
    (op.kind = "select" /\ op.conn \in {"Connected", "Authenticating"}) =>
        /\ IsOpen(ws)
        /\ ~op.created
        /\ reconnectAttempts = op.attempts

\* C18: a fetch response is applied only if it is for the conversation that
\* is active when it arrives: the response of a fetch that was requested, or
\* was waiting in its debounce window, for a conversation the user has left
\* does not touch the store.
C18_StaleFetchDropped ==
    (op.kind = "fetched" /\ op.req.sel # selectedUser) => messages = op.prev

\* C19: a burst of conversation changes inside the debounce window issues at
\* most one fetch request, for the conversation selected last: the only
\* debounce timeout that can be pending is the one of the fetchMessages in
\* force, for the active conversation, and a request that goes out is for
\* the active conversation.
C19_DebouncedSelection ==
    /\ \A t \in fetchTimers : t.inst = Current /\ t.sel = selectedUser
    /\ op.kind = "fetch" => op.req.sel = selectedUser

\* Each record delivered in order through the merge of the "message" case.
RECURSIVE MergeAll(_, _)
MergeAll(prev, recs) ==
    IF recs = <<>> THEN prev
    ELSE MergeAll(Upsert(prev, Head(recs)), Tail(recs))

\* C20: merging a fetched snapshot gives the store that delivering each
\* returned record, in order, as an inbound "message" event gives: entries
\* already there are updated in place by identity, entries the snapshot does
\* not have (a message still pending) are kept.
C20_FetchMergesLikeEvents ==
    (mounted /\ op.kind = "fetched") =>
        messages = MergeAll(op.prev, Snapshot(srv, currentUser, op.req.sel))

\* C21: while a conversation is selected, a periodic check starts a full
\* conversation fetch exactly when the connection is not Connected at that
\* moment, whatever the reconnection timer does and also once the connection
\* is Degraded.
C21_PollIffNotConnected ==
    op.kind = "poll" => (op.sent = "fetch" <=> op.conn # "Connected")

\* The messages of store a that are also in store b keep in b the order they
\* have in a (a message is named by its message_id).
SameOrder(a, b) ==
    \A i, j \in 1..Len(a) : \A k, l \in 1..Len(b) :
        (/\ i < j
         /\ a[i].message_id # a[j].message_id
         /\ b[k].message_id = a[i].message_id
         /\ b[l].message_id = a[j].message_id) => k < l

\* C22: no operation on the store (local send, inbound event, fetched
\* snapshot) reorders messages that were already there: two messages present
\* before and after the operation keep their relative order.
C22_OrderingStability == [][SameOrder(messages, messages')]_vars

\* C23: in every reachable state the store is in non-decreasing order of
\* creation timestamp (entries of equal timestamp stay in insertion order),
\* also when events arrive out of timestamp order: a new message goes to its
\* (created_at, sequence) position.
C23_OrderedByCreation ==
    \A i, j \in 1..Len(messages) :
        i < j => messages[i].created_at <= messages[j].created_at

\* An entry of the store has the canonical identity id.
Known(store, id) == \E i \in 1..Len(store) : store[i].message_id = id

\* The store holds the pending entry of the server's record of identity id.
PendingTarget(store, id) ==
    \E i \in 1..Len(store), k \in 1..Len(srv) :
        /\ srv[k].id = id
        /\ Truthy(store[i].temp_id) /\ store[i].temp_id = srv[k].temp

\* C24: an inbound edit or delete event whose message_id is the canonical
\* identity of no entry of the store, also when its target is there as a
\* pending entry, changes nothing: same entries, same fields, same order,
\* and no error is raised.
C24_UnknownTargetNoOp ==
    (op.kind \in {"editevent", "deleteevent"} /\ ~Known(op.prev, op.data.message_id))
        => (messages = op.prev /\ op.err = "")

C24_Witness ==
    /\ op.kind \in {"editevent", "deleteevent"}
    /\ PendingTarget(op.prev, op.data.message_id)
    /\ ~Known(op.prev, op.data.message_id)
    /\ messages = op.prev

\* C25: an inbound message event whose sender_id or receiver_id is missing
\* or malformed is dropped: the store is unchanged and a validation warning
\* is shown.
C25_MalformedParticipantDropped ==
    (op.kind = "message" /\ ~WellFormed(op.data))
        => (messages = op.prev /\ op.err = "Received invalid message data.")

\* A frame with a missing sender arrives on a socket whose closure has no
\* selected user, so that the pair test alone would let it through.
C25_Witness ==
    /\ op.kind = "message" /\ ~WellFormed(op.data)
    /\ op.data.receiver_id = currentUser
    /\ \E h \in Handles : h.sock.st = "OPEN"
          /\ InConversation(op.data, currentUser, h.sock.sel)
    /\ messages = op.prev /\ op.err # ""

\* The message ids the server issues.
WellFormedMessageId(id) == \E k \in 1..MaxSrv : id = CanonId(k)

\* C26: a message id received from the server is validated before use: an
\* inbound message, edit or delete event whose message_id is malformed is
\* rejected and the store is unchanged.
C26_MessageIdValidated ==
    (/\ op.kind \in {"message", "editevent", "deleteevent"}
     /\ ~WellFormedMessageId(op.data.message_id))
        => messages = op.prev

\* The identities of the presence table, in order.
UserIds(table) == [i \in 1..Len(table) |-> table[i].id]

\* C27: an inbound "user_status" event sets the online flag of the user it
\* names and nothing else: the presence table keeps its identities (an event
\* for an unknown user adds no entry), every other entry is unchanged, and
\* the message store is unchanged.
C27_PresenceFrame ==
    [][op'.kind = "status" =>
          /\ UserIds(users') = UserIds(users)
          /\ \A i \in 1..Len(users) :
                users'[i] = IF users[i].id = op'.req.id
                            THEN [users[i] EXCEPT !.is_online = op'.flag]
                            ELSE users[i]
          /\ messages' = messages]_vars

\* An event for a user the table does not have, while it has another one
\* and the store has a message.
C27_Witness ==
    /\ op.kind = "status"
    /\ users # <<>> /\ messages # <<>>
    /\ \A i \in 1..Len(users) : users[i].id # op.req.id

\* The error texts that carry a phrase which ends the session.
InvalidatingTexts == {"Invalid token", "Error: Invalid token supplied",
                      "User not found"}

\* C28: an inbound "error" frame whose text contains a phrase that ends the
\* session removes the token and leaves the chat page for the login; an
\* error frame with any other text only shows the error: the token, the
\* message store and the connection are what they were.
C28_ErrorFrame ==
    [][(op'.kind = "error" /\ op'.data.text # Null) =>
          /\ op'.err = op'.data.text
          /\ IF op'.data.text \in InvalidatingTexts
             THEN ~token' /\ op'.nav
             ELSE /\ token' = token /\ ~op'.nav /\ mounted' = mounted
                  /\ messages' = messages /\ connVars' = connVars]_vars

\* The session was ended by a frame that carries the phrase inside a longer
\* text, on a page that showed a message.
C28_Witness ==
    /\ op.kind = "error" /\ op.data.text = "Error: Invalid token supplied"
    /\ ~token /\ op.nav /\ messages # <<>>

\* C29: a conversation fetch that fails with 401 ends the session (the
\* token is removed); with 404 it reports an invalid conversation target and
\* the session goes on (the token stays); with 403 it reports an
\* authorization failure whose outcome is not that of a 401: another error,
\* and the session goes on. No failure changes the message store.
C29_FetchFailureClasses ==
    [][op'.kind = "fetchfailed" =>
          /\ messages' = messages
          /\ op'.status = 401 => ~token'
          /\ op'.status = 404 =>
                (token' = token /\ op'.err = FetchError(404)
                 /\ FetchError(404) # FetchError(500))
          /\ op'.status = 403 =>
                (token' = token /\ op'.err # FetchError(401))]_vars

\* C30: the attempt counter stays in 0..5 whatever sockets open and close
\* and in whatever order: no step takes it past 5, and a reconnection timer
\* is scheduled only by a close event that finds the counter below 5.
C30_CounterBounded ==
    [][/\ reconnectAttempts' \in 0..MaxAttempts
       /\ BagCardinality(timers') > BagCardinality(timers) =>
             (op'.kind = "close" /\ reconnectAttempts < MaxAttempts)]_vars

\* A socket closes with the counter at 5 while another socket is alive.
C30_Witness ==
    /\ op.kind = "close" /\ op.attempts = MaxAttempts /\ op.sched = 0
    /\ reconnectAttempts = MaxAttempts
    /\ (Live(ws) \/ orphans # EmptyBag)

\* C31: the connection status on screen agrees with the socket the
\* component holds: it is "connected" exactly when ws.current is open, also
\* when an earlier socket's close event is delivered after a newer socket
\* has opened.
C31_StatusAgreesWithSocket ==
    mounted => (connectionStatus = "connected" <=> IsOpen(ws))

\* C32: every message of the store belongs to the active conversation: its
\* (sender_id, receiver_id) pair is the current user and the selected user,
\* in either direction, also right after the selected user changes.
C32_StoreIsActiveConversation ==
    \A i \in 1..Len(messages) :
        InConversation(messages[i], currentUser, selectedUser)
====
